---- MODULE Spec2Model ----
(***************************************************************************)
(* Model of ZohoTokenManager (src/crm_zoho/token_manager.py): the OAuth    *)
(* token record held in memory (token_data), its copy in the token file    *)
(* (TOKEN_FILE), the wall clock, and the callers of the public methods.    *)
(*                                                                         *)
(* A call is split where the code blocks on I/O: the HTTP POST             *)
(* (client.post, lines 111 and 141) and the file write (open/json.dump,    *)
(* lines 77-79).  Between those points a method runs without interruption; *)
(* other callers may run while one is blocked.  The class takes no lock.   *)
(*                                                                         *)
(* is_authenticated and ZohoAdapter.get_connection_config                  *)
(* (src/crm_zoho/adapter.py) are calls of get_valid_access_token whose     *)
(* outcome they map to their own; the adapter constructs its manager over  *)
(* the file first.  A crash of the process inside the file write is an     *)
(* action of its own.                                                      *)
(*                                                                         *)
(* A token record is a Python dict.  It is modelled as a record with the   *)
(* four keys the code reads, a key that is not in the dict holding NoField *)
(* (string keys) or NoNum (numeric keys).  token_data = None is modelled   *)
(* as the dict with no key: every test the code makes on it               *)
(* ("not self.token_data", "self.token_data and ...") treats the two alike.*)
(***************************************************************************)
EXTENDS Integers, FiniteSets, Sequences, TLC

\* ------------------------------------------------------------------ bounds

\* Number of clock advances in a behaviour.
MaxTicks == 3

\* Number of calls of the public methods in a behaviour.
MaxCalls == 2

\* ------------------------------------------------------- program constants

TOKEN_REFRESH_BUFFER_SECONDS == 300

\* token_data.get("expires_in", 3600)
DEFAULT_EXPIRES_IN == 3600

\* token_data.get("expires_at", 0)
DEFAULT_EXPIRES_AT == 0

\* ------------------------------------------------------------ token records

NoField == "<absent>"
NoNum == -1

Rec(at, rt, ei, ea) ==
    [access_token |-> at, refresh_token |-> rt, expires_in |-> ei, expires_at |-> ea]

None == Rec(NoField, NoField, NoNum, NoNum)

NumKeys == {"expires_in", "expires_at"}

\* key in d
Has(d, k) == IF k \in NumKeys THEN d[k] # NoNum ELSE d[k] # NoField

\* bool(d): a dict is true when it has a key
Truthy(d) == d # None

\* d.get(k, default)
Get(d, k, default) == IF Has(d, k) THEN d[k] ELSE default

\* d.setdefault(k, v): sets k only when k is not a key of d, whatever d[k] is
setdefault(d, k, v) == IF Has(d, k) THEN d ELSE [d EXCEPT ![k] = v]

\* A refresh token that is a key of d and is not the empty string.
NonEmptyRT(d) == Has(d, "refresh_token") /\ d.refresh_token # ""

\* ------------------------------------------------------------ environment

Callers == {"c1", "c2"}

Ops == {"exchange_code_for_tokens", "refresh_access_token", "get_valid_access_token"}

\* The callers of is_authenticated (lines 190-196), which calls
\* get_valid_access_token, beside the two methods it is compared with.
AuthOps == {"exchange_code_for_tokens", "is_authenticated", "get_valid_access_token"}

\* The callers of ZohoAdapter.get_connection_config (adapter.py, lines 27-60),
\* which constructs a manager over the file and calls get_valid_access_token,
\* beside the exchange that fills the file.
AdapterOps == {"exchange_code_for_tokens", "get_connection_config"}

\* The methods that run get_valid_access_token.
RunsGV(k) == k \in {"get_valid_access_token", "is_authenticated", "get_connection_config"}

\* Bodies of a success-status response of the token endpoint (response.json()).
\* expires_at is never taken from a response: lines 116 and 149 overwrite it,
\* also when the response carries one.
Bodies ==
    { Rec("a1", "r1", 3600, NoNum),      \* a full grant
      Rec("a2", "", 3600, NoNum),        \* refresh_token present but empty
      Rec("a2", "r2", NoNum, 1),         \* rotated refresh_token, no expires_in,
                                         \* an expires_at of the server's own
      Rec("a1", NoField, 300, NoNum),    \* refresh_token omitted, lifetime = buffer
      Rec(NoField, NoField, NoNum, NoNum) } \* success status, error body

\* What client.post / raise_for_status can do besides delivering a body.
Failures == {"HTTPStatusError", "TransportError"}

\* What lines 76-81 can do: all succeed; open() fails (file untouched); the
\* write fails after open() truncated the file; chmod fails after the write.
WriteOutcomes == {"ok", "open_failed", "write_failed", "chmod_failed"}

\* Clock advances: the first to one second before the buffer of a token
\* granted at time 0 for 3600 s begins, then second by second.
Deltas == {1, 3299}

\* A record an earlier run of the program left in the file: a full grant made
\* at time 0.
StoredEarlier == Rec("a1", "r1", 3600, 3600)

\* The token file: absent, unreadable as JSON, or holding a record.
FileAbsent == [state |-> "absent", data |-> None]
FileCorrupt == [state |-> "corrupt", data |-> None]
FileOf(d) == [state |-> "ok", data |-> d]

VARIABLES
    token_data,      \* self.token_data
    file,            \* content of TOKEN_FILE
    now,             \* time.time()
    ticks,           \* number of clock advances so far
    calls,           \* number of calls begun so far
    ALWAYS_REFRESH,  \* the class attribute
    pc,              \* per caller: "idle", "posting", "writing", "done"
    op,              \* per caller: the method it is in
    loc,             \* per caller: the locals of the call
    result,          \* per caller: what the call returned or raised
    everRT,          \* the held record has contained a non-empty refresh_token
    writtenSince,    \* a file write has succeeded since everRT became true
    rejected,        \* a refresh made by get_valid_access_token was rejected
                     \* and no code exchange has succeeded since
    lastExchange,    \* the record stored by the exchange_code_for_tokens call
                     \* that has just returned and ran with no other call in
                     \* progress, kept while a call that began right after it
                     \* and ended at once is looked at; else None
    last,            \* how the call that has just returned ended, kept (as
                     \* lastExchange is) while a call that began right after
                     \* it and ended at once is looked at:
                     \*   "save_failed": it ran alone and its file write failed
                     \*   "auth_true":   it was is_authenticated, ran alone and
                     \*                  returned True
                     \*   "none":        anything else, or no such call
    saveFailed       \* a file write has failed since the manager was constructed

vars == <<token_data, file, now, ticks, calls, ALWAYS_REFRESH, pc, op, loc, result,
          everRT, writtenSince, rejected, lastExchange, last, saveFailed>>

\* ------------------------------------------------------------------ results

\* get_authorization_url(): a pure function of the constructor's arguments.
get_authorization_url ==
    "{accounts_server}/oauth/v2/auth?scope&client_id&response_type=code&redirect_uri&access_type=offline&prompt=consent"

NoUrl == ""

NoResult ==
    [status |-> "none", value |-> "", url |-> NoUrl, exp |-> NoNum, ein |-> NoNum,
     at |-> NoNum]

\* A raised exception: its kind and the authorization URL its message carries.
Raise(kind, url) ==
    [status |-> "error", value |-> kind, url |-> url, exp |-> NoNum, ein |-> NoNum,
     at |-> NoNum]

\* A returned value: the token, with the expires_at and the expires_in of the
\* record it was read from and the time of the return.
Return(tok, d, t) ==
    [status |-> "ok", value |-> tok, url |-> NoUrl,
     exp |-> Get(d, "expires_at", DEFAULT_EXPIRES_AT),
     ein |-> Get(d, "expires_in", DEFAULT_EXPIRES_IN), at |-> t]

\* The locals of a call, and what is recorded of it.
\*   refresh:  the call invoked refresh_access_token
\*   resp:     response.json()
\*   arg:      the argument of _save_tokens
\*   cand:     token_data of _save_tokens after the merge: what line 74 stores
\*             and line 78 writes
\*   wrote:    how the call's file write (lines 76-79) went, "" before it
\*   failed:   refresh_access_token raised
\*   afterRej: rejected when the call began
\*   alone:    no other call has been in progress during this one
\*   afterAuth: the call began right after an is_authenticated call that
\*             ran alone returned True
NoLoc ==
    [refresh |-> FALSE, resp |-> None, arg |-> None, cand |-> None,
     wrote |-> "", failed |-> FALSE, afterRej |-> FALSE, alone |-> FALSE,
     afterAuth |-> FALSE]

\* ---------------------------------------------------------------- the code

\* _load_tokens: the record of the file, None when the file is missing or
\* is not JSON.
_load_tokens(f) == IF f.state = "ok" THEN f.data ELSE None

\* _save_tokens without the merge of lines 71-72.
save_tokens_without_merge(held, cand) == cand

\* _save_tokens leaving self.token_data as it was (no line 74).
save_tokens_keeps_held(held, cand) == held

\* _save_tokens, lines 71-74: the record that becomes self.token_data.
_save_tokens(held, cand) ==
    IF Truthy(held) /\ Has(held, "refresh_token")
    THEN setdefault(cand, "refresh_token", held.refresh_token)
    ELSE cand

\* expires_at kept from the response when the response carries one.
WithExpiry_from_response(d, t) ==
    IF Has(d, "expires_at") THEN d
    ELSE [d EXCEPT !.expires_at = t + Get(d, "expires_in", DEFAULT_EXPIRES_IN)]

\* expires_at without the clock: the lifetime taken for the deadline.
WithExpiry_without_clock(d, t) ==
    [d EXCEPT !.expires_at = Get(d, "expires_in", DEFAULT_EXPIRES_IN)]

\* Lines 116 and 149: expires_at from the clock and the response's expires_in.
WithExpiry(d, t) ==
    [d EXCEPT !.expires_at = t + Get(d, "expires_in", DEFAULT_EXPIRES_IN)]

\* The comparison of line 184 with > for >=.
NeedsRefresh_strict(flag, t, expires_at) ==
    flag \/ t > expires_at - TOKEN_REFRESH_BUFFER_SECONDS

\* The comparison of line 184 with the buffer added instead of subtracted.
NeedsRefresh_early(flag, t, expires_at) ==
    flag \/ t >= expires_at + TOKEN_REFRESH_BUFFER_SECONDS

\* Line 184 refreshing on every call.
NeedsRefresh_always(flag, t, expires_at) == TRUE

\* Line 184 (and 178): whether get_valid_access_token refreshes.
NeedsRefresh(flag, t, expires_at) ==
    flag \/ t >= expires_at - TOKEN_REFRESH_BUFFER_SECONDS

\* Line 129: refresh_access_token has nothing to refresh with.
MissingRefreshToken(d) == ~Truthy(d) \/ ~Has(d, "refresh_token")

\* Line 165: get_valid_access_token has no token at all.
NoAccessToken(d) == ~Truthy(d) \/ ~Has(d, "access_token")

\* A get_valid_access_token that catches the failure of the refresh and
\* falls back on the token it holds.
RefreshFailed_fallback(kind, d, t) ==
    IF Has(d, "access_token") THEN Return(d.access_token, d, t)
    ELSE Raise(kind, NoUrl)

\* Lines 180 and 186: refresh_access_token raised inside
\* get_valid_access_token; nothing catches it.
RefreshFailed(kind, d, t) == Raise(kind, NoUrl)

\* Line 130.
MissingRefreshTokenError == Raise("MissingRefreshToken", NoUrl)

\* Lines 166-172.
NoAccessTokenError == Raise("NoAccessToken", get_authorization_url)

\* Lines 181 and 188: return self.token_data["access_token"].
ReturnAccessToken(d, t) ==
    IF Has(d, "access_token") THEN Return(d.access_token, d, t)
    ELSE Raise("KeyError", NoUrl)

\* A failed POST that drops the held record.
token_data_on_failure_cleared(held) == None

\* Lines 111-113 and 141-143: client.post or raise_for_status raises before
\* anything is assigned; self.token_data is what it was.
token_data_on_failure(held) == held

\* A result that is a plain value (a boolean, a connection config).
Value(v) ==
    [status |-> "ok", value |-> v, url |-> NoUrl, exp |-> NoNum, ein |-> NoNum,
     at |-> NoNum]

\* is_authenticated letting the exception through.
is_authenticated_reraises(r) == IF r.status = "ok" THEN Value("True") ELSE r

\* is_authenticated answering True whatever happened.
is_authenticated_always(r) == Value("True")

\* is_authenticated, lines 190-196: r is what its get_valid_access_token call
\* returned or raised; "except Exception" catches every exception.
is_authenticated(r) == IF r.status = "ok" THEN Value("True") ELSE Value("False")

\* The exceptions of the manager that are RuntimeError: lines 81, 130, 166.
\* httpx.HTTPStatusError, the transport errors and KeyError are not.
RuntimeErrors == {"SaveFailed", "MissingRefreshToken", "NoAccessToken"}

\* A connection config with no "headers" key.
NoHeaders == "<no headers>"

\* get_connection_config (adapter.py, lines 27-60), client_id and
\* client_secret being set: r is what get_valid_access_token returned or raised
\* on the manager of line 35.  The config carries the token in its
\* Authorization header; "except RuntimeError" (line 44) turns a RuntimeError
\* into a config without headers; any other exception leaves the method.
get_connection_config(r) ==
    IF r.status = "ok" THEN Value(r.value)
    ELSE IF r.value \in RuntimeErrors THEN Value(NoHeaders)
    ELSE r

\* What method k gives its caller when its get_valid_access_token call gave r.
Outcome(k, r) ==
    IF k = "is_authenticated" THEN is_authenticated(r)
    ELSE IF k = "get_connection_config" THEN get_connection_config(r)
    ELSE r

\* Where a crash can fall in lines 76-79: before open(), after open() has
\* truncated the file and before the record is flushed whole, after the write.
CrashPoints == {"before_open", "after_truncate", "after_dump"}

Init ==
    /\ file \in {FileAbsent, FileCorrupt, FileOf(StoredEarlier)}
    /\ token_data = _load_tokens(file)
    /\ now = 0
    /\ ticks = 0
    /\ calls = 0
    /\ ALWAYS_REFRESH \in BOOLEAN
    /\ pc = [c \in Callers |-> "idle"]
    /\ op = [c \in Callers |-> "none"]
    /\ loc = [c \in Callers |-> NoLoc]
    /\ result = [c \in Callers |-> NoResult]
    /\ everRT = NonEmptyRT(token_data)
    /\ writtenSince = FALSE
    /\ rejected = FALSE
    /\ lastExchange = None
    /\ last = "none"
    /\ saveFailed = FALSE

\* ------------------------------------------------------------------ actions

\* A finished call's result and locals are looked at before anything else
\* happens: "done" is where a call's outcome is observed, not a place where
\* the program waits.
Observed == \A c \in Callers : pc[c] # "done"

\* A caller enters one of the public methods and runs it up to its first
\* blocking call (the POST) or to its end.  get_connection_config constructs
\* its own manager (adapter.py, line 35), which no other caller holds: it runs
\* with no other call in progress.
Start(c, k) ==
    /\ Observed
    /\ pc[c] = "idle"
    /\ calls < MaxCalls
    /\ \A d \in Callers : op[d] # "get_connection_config"
    /\ k = "get_connection_config" => \A d \in Callers : pc[d] = "idle"
    /\ calls' = calls + 1
    /\ op' = [op EXCEPT ![c] = k]
    /\ LET fresh == (k = "get_connection_config")
           td == IF fresh THEN _load_tokens(file) ELSE token_data
           l0 == [NoLoc EXCEPT !.afterRej = (~fresh /\ rejected),
                                !.alone = \A d \in Callers \ {c} : pc[d] = "idle",
                                !.afterAuth = (~fresh /\ last = "auth_true")]
           lr == [l0 EXCEPT !.refresh = TRUE]
           lf == [lr EXCEPT !.failed = TRUE]
           expires_at == Get(td, "expires_at", DEFAULT_EXPIRES_AT)
           Goes(p, l) == /\ pc' = [pc EXCEPT ![c] = p]
                         /\ loc' = [d \in Callers |->
                                      IF d = c THEN l ELSE [loc[d] EXCEPT !.alone = FALSE]]
       IN  /\ token_data' = td
           /\ everRT' = IF fresh THEN NonEmptyRT(td) ELSE everRT
           /\ writtenSince' = (~fresh /\ writtenSince)
           /\ rejected' = (~fresh /\ rejected)
           /\ saveFailed' = (~fresh /\ saveFailed)
           /\ IF k = "exchange_code_for_tokens"
              THEN Goes("posting", l0) /\ result' = result
              ELSE IF k = "refresh_access_token"
              THEN IF MissingRefreshToken(td)
                   THEN /\ Goes("done", lf)
                        /\ result' = [result EXCEPT ![c] = MissingRefreshTokenError]
                   ELSE Goes("posting", lr) /\ result' = result
              ELSE IF NoAccessToken(td)
              THEN /\ Goes("done", l0)
                   /\ result' = [result EXCEPT ![c] = Outcome(k, NoAccessTokenError)]
              ELSE IF NeedsRefresh(ALWAYS_REFRESH, now, expires_at)
              THEN IF MissingRefreshToken(td)
                   THEN /\ Goes("done", lf)
                        /\ result' = [result EXCEPT ![c] =
                                        Outcome(k, RefreshFailed("MissingRefreshToken", td, now))]
                   ELSE Goes("posting", lr) /\ result' = result
              ELSE /\ Goes("done", l0)
                   /\ result' = [result EXCEPT ![c] = Outcome(k, ReturnAccessToken(td, now))]
    /\ lastExchange' = IF pc'[c] = "done" THEN lastExchange ELSE None
    /\ last' = IF pc'[c] = "done" THEN last ELSE "none"
    /\ UNCHANGED <<file, now, ticks, ALWAYS_REFRESH>>

\* The POST fails: client.post raises (transport) or raise_for_status raises
\* (non-success status).  Nothing is stored.
RespondFailure(c, f) ==
    /\ Observed
    /\ pc[c] = "posting"
    /\ pc' = [pc EXCEPT ![c] = "done"]
    /\ loc' = [loc EXCEPT ![c].failed = (op[c] # "exchange_code_for_tokens")]
    /\ token_data' = token_data_on_failure(token_data)
    /\ result' = [result EXCEPT ![c] =
                    IF RunsGV(op[c])
                    THEN Outcome(op[c], RefreshFailed(f, token_data, now))
                    ELSE Raise(f, NoUrl)]
    /\ rejected' = (rejected \/ (RunsGV(op[c]) /\ f = "HTTPStatusError"))
    /\ lastExchange' = None
    /\ last' = "none"
    /\ UNCHANGED <<file, now, ticks, calls, ALWAYS_REFRESH, op, everRT,
                   writtenSince, saveFailed>>

\* The POST delivers a success-status body: the method runs on to line 74,
\* where the merged record becomes self.token_data, and blocks on the write.
RespondBody(c, b) ==
    /\ Observed
    /\ pc[c] = "posting"
    /\ IF op[c] # "exchange_code_for_tokens" /\ MissingRefreshToken(token_data)
       THEN \* line 146 evaluates self.token_data["refresh_token"]
            /\ pc' = [pc EXCEPT ![c] = "done"]
            /\ loc' = [loc EXCEPT ![c].resp = b, ![c].failed = TRUE]
            /\ result' = [result EXCEPT ![c] =
                            IF RunsGV(op[c])
                            THEN Outcome(op[c], RefreshFailed("KeyError", token_data, now))
                            ELSE Raise("KeyError", NoUrl)]
            /\ UNCHANGED <<token_data, everRT, writtenSince>>
       ELSE LET new_data == IF op[c] = "exchange_code_for_tokens" THEN b
                            ELSE setdefault(b, "refresh_token", token_data.refresh_token)
                arg == WithExpiry(new_data, now)
                merged == _save_tokens(token_data, arg)
            IN  /\ token_data' = merged
                /\ pc' = [pc EXCEPT ![c] = "writing"]
                /\ loc' = [loc EXCEPT ![c].resp = b, ![c].arg = arg,
                                      ![c].cand = merged]
                /\ result' = result
                /\ everRT' = (everRT \/ NonEmptyRT(merged))
                /\ writtenSince' = (everRT /\ writtenSince)
    /\ lastExchange' = None
    /\ last' = "none"
    /\ UNCHANGED <<file, now, ticks, calls, ALWAYS_REFRESH, op, rejected, saveFailed>>

\* Lines 76-81 and the method's return.
Write(c, w) ==
    /\ Observed
    /\ pc[c] = "writing"
    /\ file' = IF w \in {"ok", "chmod_failed"} THEN FileOf(loc[c].cand)
               ELSE IF w = "write_failed" THEN FileCorrupt
               ELSE file
    /\ pc' = [pc EXCEPT ![c] = "done"]
    /\ loc' = [loc EXCEPT ![c].wrote = w,
                          ![c].failed = (w # "ok" /\ op[c] # "exchange_code_for_tokens")]
    /\ result' = [result EXCEPT ![c] =
                    IF w = "ok"
                    THEN IF RunsGV(op[c])
                         THEN Outcome(op[c], ReturnAccessToken(token_data, now))
                         ELSE Return(loc[c].cand.access_token, loc[c].cand, now)
                    ELSE IF RunsGV(op[c])
                         THEN Outcome(op[c], RefreshFailed("SaveFailed", token_data, now))
                         ELSE Raise("SaveFailed", NoUrl)]
    /\ writtenSince' = (writtenSince \/ (everRT /\ w \in {"ok", "chmod_failed"}))
    /\ rejected' = (rejected /\ ~(op[c] = "exchange_code_for_tokens" /\ w = "ok"))
    /\ lastExchange' = IF op[c] = "exchange_code_for_tokens" /\ w = "ok" /\ loc[c].alone
                       THEN loc[c].cand ELSE None
    /\ last' = "none"
    /\ saveFailed' = (saveFailed \/ w # "ok")
    /\ UNCHANGED <<token_data, now, ticks, calls, ALWAYS_REFRESH, op, everRT>>

\* The caller takes the result and is free for its next call.
Finish(c) ==
    /\ pc[c] = "done"
    /\ pc' = [pc EXCEPT ![c] = "idle"]
    /\ op' = [op EXCEPT ![c] = "none"]
    /\ loc' = [loc EXCEPT ![c] = NoLoc]
    /\ result' = [result EXCEPT ![c] = NoResult]
    /\ lastExchange' = IF op[c] = "exchange_code_for_tokens" THEN lastExchange ELSE None
    /\ last' = IF ~loc[c].alone THEN "none"
               ELSE IF op[c] = "is_authenticated" /\ result[c] = Value("True")
               THEN "auth_true"
               ELSE IF loc[c].wrote \notin {"", "ok"} THEN "save_failed"
               ELSE "none"
    /\ UNCHANGED <<token_data, file, now, ticks, calls, ALWAYS_REFRESH, everRT,
                   writtenSince, rejected, saveFailed>>

\* Time passes (the file write is taken to be instantaneous).
Tick(d) ==
    /\ Observed
    /\ ticks < MaxTicks
    /\ \A c \in Callers : pc[c] # "writing"
    /\ d = (IF now = 0 THEN 3299 ELSE 1)
    /\ ticks' = ticks + 1
    /\ now' = now + d
    /\ lastExchange' = None
    /\ last' = "none"
    /\ UNCHANGED <<token_data, file, calls, ALWAYS_REFRESH, pc, op, loc, result,
                   everRT, writtenSince, rejected, saveFailed>>

\* __init__ (lines 50-52): a manager is constructed over the file as it is.
Construct ==
    /\ \A c \in Callers : pc[c] = "idle"
    /\ token_data' = _load_tokens(file)
    /\ everRT' = NonEmptyRT(token_data')
    /\ writtenSince' = FALSE
    /\ rejected' = FALSE
    /\ lastExchange' = None
    /\ last' = "none"
    /\ saveFailed' = FALSE
    /\ UNCHANGED <<file, now, ticks, calls, ALWAYS_REFRESH, pc, op, loc, result>>

\* The process dies while caller c is in lines 76-79 of _save_tokens: the
\* file is left as the crash point p leaves it (open(TOKEN_FILE, "w")
\* truncates the file in place, json.dump then writes into it); every call
\* in progress is gone; the next process constructs its manager over the file.
Crash(c, p) ==
    /\ Observed
    /\ pc[c] = "writing"
    /\ file' = IF p = "before_open" THEN file
               ELSE IF p = "after_truncate" THEN FileCorrupt
               ELSE FileOf(loc[c].cand)
    /\ pc' = [d \in Callers |-> "idle"]
    /\ op' = [d \in Callers |-> "none"]
    /\ loc' = [d \in Callers |-> NoLoc]
    /\ result' = [d \in Callers |-> NoResult]
    /\ token_data' = _load_tokens(file')
    /\ everRT' = NonEmptyRT(token_data')
    /\ writtenSince' = FALSE
    /\ rejected' = FALSE
    /\ lastExchange' = None
    /\ last' = "none"
    /\ saveFailed' = FALSE
    /\ UNCHANGED <<now, ticks, calls, ALWAYS_REFRESH>>

Next ==
    \/ \E c \in Callers, k \in Ops : Start(c, k)
    \/ \E c \in Callers, f \in Failures : RespondFailure(c, f)
    \/ \E c \in Callers, b \in Bodies : RespondBody(c, b)
    \/ \E c \in Callers, w \in WriteOutcomes : Write(c, w)
    \/ \E c \in Callers : Finish(c)
    \/ \E d \in Deltas : Tick(d)
    \/ Construct
    \/ \E c \in Callers, p \in CrashPoints : Crash(c, p)

Spec == Init /\ [][Next]_vars

\* The same program with is_authenticated among the methods called.
NextAuth ==
    \/ \E c \in Callers, k \in AuthOps : Start(c, k)
    \/ \E c \in Callers, f \in Failures : RespondFailure(c, f)
    \/ \E c \in Callers, b \in Bodies : RespondBody(c, b)
    \/ \E c \in Callers, w \in WriteOutcomes : Write(c, w)
    \/ \E c \in Callers : Finish(c)
    \/ \E d \in Deltas : Tick(d)
    \/ Construct
    \/ \E c \in Callers, p \in CrashPoints : Crash(c, p)

SpecAuth == Init /\ [][NextAuth]_vars

\* The same program called through ZohoAdapter.get_connection_config.
NextAdapter ==
    \/ \E c \in Callers, k \in AdapterOps : Start(c, k)
    \/ \E c \in Callers, f \in Failures : RespondFailure(c, f)
    \/ \E c \in Callers, b \in Bodies : RespondBody(c, b)
    \/ \E c \in Callers, w \in WriteOutcomes : Write(c, w)
    \/ \E c \in Callers : Finish(c)
    \/ \E d \in Deltas : Tick(d)
    \/ Construct
    \/ \E c \in Callers, p \in CrashPoints : Crash(c, p)

SpecAdapter == Init /\ [][NextAdapter]_vars

\* ------------------------------------------------------------------ claims

GVA == "get_valid_access_token"
XCH == "exchange_code_for_tokens"

\* Caller c begins a get_valid_access_token call on this step.
GVBegins(c) == pc[c] = "idle" /\ pc'[c] # "idle" /\ op'[c] = GVA

\* A get_valid_access_token call of c has ended.
GVEnded(c) == pc[c] = "done" /\ op[c] = GVA

\* The keys of a record other than refresh_token.
OtherKeys == {"access_token", "expires_in", "expires_at"}

\* C1: once the held record has contained a non-empty refresh_token, the held
\* record and every record written to the file afterwards carry a non-empty
\* refresh_token, whatever the responses (refresh_token present, absent, or
\* present but empty).
C1_RefreshTokenDurable ==
    everRT =>
        /\ NonEmptyRT(token_data)
        /\ (writtenSince /\ file.state = "ok") => NonEmptyRT(file.data)

\* C2: when the held record has a non-empty refresh_token R and _save_tokens
\* gets a candidate with no refresh_token key, the record stored in memory has
\* refresh_token = R and the candidate's other fields, and a write that
\* succeeds leaves exactly that record in the file.
C2_Step ==
    \A c \in Callers :
        /\ (/\ pc[c] = "posting" /\ pc'[c] = "writing"
            /\ NonEmptyRT(token_data)
            /\ ~Has(loc'[c].arg, "refresh_token"))
           => /\ token_data'.refresh_token = token_data.refresh_token
              /\ \A k \in OtherKeys : token_data'[k] = loc'[c].arg[k]
              /\ loc'[c].cand = token_data'
        /\ (/\ pc[c] = "posting" /\ pc'[c] = "writing"
            /\ op[c] # XCH
            /\ NonEmptyRT(token_data)
            /\ ~Has(loc'[c].resp, "refresh_token"))
           => token_data'.refresh_token = token_data.refresh_token
        /\ (/\ pc[c] = "writing" /\ pc'[c] = "done"
            /\ loc'[c].wrote = "ok")
           => file' = FileOf(loc[c].cand)

C2_MergeOnSave == [][C2_Step]_vars

\* An exchange whose response had no refresh_token was saved over a record
\* that had one, and the write succeeded.
C2_Witness ==
    \E c \in Callers :
        /\ pc[c] = "done" /\ op[c] = XCH /\ loc[c].wrote = "ok"
        /\ ~Has(loc[c].arg, "refresh_token")
        /\ loc[c].cand.refresh_token = "r1"
        /\ token_data = loc[c].cand
        /\ file = FileOf(loc[c].cand)

\* C3: at most one refresh request of get_valid_access_token callers is in
\* flight at a time: concurrent callers that find the token expiring do not
\* each send their own POST.
C3_SingleRefreshInFlight ==
    Cardinality({c \in Callers : op[c] = GVA /\ pc[c] = "posting"}) <= 1

C5_Step ==
    \A c \in Callers :
        (GVBegins(c) /\ Has(token_data, "access_token"))
        => LET ea == IF Has(token_data, "expires_at") THEN token_data.expires_at ELSE 0
           IN  /\ loc'[c].refresh <=> (ALWAYS_REFRESH \/ now >= ea - 300)
               /\ (~ALWAYS_REFRESH /\ ea = 3600 /\ now = 3301) => loc'[c].refresh
               /\ (~ALWAYS_REFRESH /\ ea = 3600 /\ now = 3300) => loc'[c].refresh
               /\ (~ALWAYS_REFRESH /\ ea = 3600 /\ now = 3299) => ~loc'[c].refresh
               /\ (loc'[c].refresh /\ NonEmptyRT(token_data)) => pc'[c] = "posting"
               /\ ~loc'[c].refresh => pc'[c] = "done"

C5_RefreshDecision == [][C5_Step]_vars

\* A call made exactly at expires_at - 300 with the flag off has sent its
\* refresh request.
C5_Witness ==
    \E c \in Callers :
        /\ op[c] = GVA /\ pc[c] = "posting" /\ loc[c].refresh
        /\ ~ALWAYS_REFRESH
        /\ now = 3300 /\ token_data.expires_at = 3600

\* C6: after the authorization server has rejected a refresh made by
\* get_valid_access_token, every get_valid_access_token call begun before a
\* code exchange succeeds ends in an error.
C6_FailureLatches ==
    \A c \in Callers :
        (GVEnded(c) /\ loc[c].afterRej /\ rejected)
            => result[c].status = "error"

\* C7: a get_valid_access_token call whose refresh failed (no refresh_token,
\* rejection, transport failure, failed write) ends in an error and does not
\* return the token held before.
C7_NoStaleFallback ==
    \A c \in Callers :
        (GVEnded(c) /\ loc[c].refresh /\ loc[c].failed)
            => result[c].status = "error"

\* The refresh of a call was rejected while a record with an access_token
\* was held.
C7_Witness ==
    \E c \in Callers :
        /\ GVEnded(c) /\ loc[c].refresh /\ loc[c].failed
        /\ result[c].value = "HTTPStatusError"
        /\ Has(token_data, "access_token")

\* C8 as claimed: a get_valid_access_token call made right after a
\* successful exchange_code_for_tokens (its response carrying an
\* access_token), with no time elapsing, returns the access_token of that
\* exchange and does not refresh, whatever expires_in.
C8_StepAlways ==
    \A c \in Callers :
        (GVBegins(c) /\ lastExchange # None /\ Has(lastExchange, "access_token"))
        => /\ pc'[c] = "done"
           /\ ~loc'[c].refresh
           /\ result'[c].status = "ok"
           /\ result'[c].value = lastExchange.access_token

C8_RoundTripAlways == [][C8_StepAlways]_vars

\* C8 as amended: with the always-refresh flag off, a get_valid_access_token
\* call made right after a successful exchange_code_for_tokens (its response
\* carrying an access_token; no other call in progress, no time elapsing)
\* whose expires_in (3600 when absent) is above 300 returns that access_token
\* and does not refresh.
C8_Step ==
    \A c \in Callers :
        (/\ GVBegins(c) /\ lastExchange # None
         /\ ~ALWAYS_REFRESH
         /\ Has(lastExchange, "access_token")
         /\ (Has(lastExchange, "expires_in") => lastExchange.expires_in > 300))
        => /\ pc'[c] = "done"
           /\ ~loc'[c].refresh
           /\ result'[c].status = "ok"
           /\ result'[c].value = lastExchange.access_token

C8_RoundTrip == [][C8_Step]_vars

\* An exchange made after time has passed was followed at once by a call
\* that returned the exchange's token.
C8_Witness ==
    \E c \in Callers :
        /\ GVEnded(c) /\ lastExchange # None /\ ~ALWAYS_REFRESH
        /\ now > 0
        /\ ~loc[c].refresh
        /\ result[c].status = "ok"
        /\ result[c].value = lastExchange.access_token

\* C9: with the flag off and the held record's expires_at more than 300 s
\* ahead, a get_valid_access_token call sends no refresh request, returns the
\* held access_token, and leaves the held record and the file as they were.
C9_Step ==
    \A c \in Callers :
        (/\ GVBegins(c) /\ ~ALWAYS_REFRESH
         /\ Has(token_data, "access_token")
         /\ Has(token_data, "expires_at")
         /\ token_data.expires_at > now + 300)
        => /\ pc'[c] = "done"
           /\ ~loc'[c].refresh
           /\ result'[c].status = "ok"
           /\ result'[c].value = token_data.access_token
           /\ token_data' = token_data
           /\ file' = file

C9_ValidReadHasNoEffect == [][C9_Step]_vars

\* The second call of a behaviour, not made right after an exchange, returned
\* the held token, the record still more than 300 s from its expiry.
C9_Witness ==
    \E c \in Callers :
        /\ GVEnded(c) /\ calls = 2 /\ ~ALWAYS_REFRESH /\ ~loc[c].refresh
        /\ result[c].status = "ok"
        /\ result[c].value = token_data.access_token
        /\ token_data.expires_at > now + 300
        /\ lastExchange = None

\* C10: the error get_valid_access_token raises when a refresh is due and the
\* held record has no refresh_token carries the authorization URL, as the
\* error of the state with no token does.
C10_MissingRefreshTokenCarriesUrl ==
    \A c \in Callers :
        (GVEnded(c) /\ result[c].status = "error"
         /\ result[c].value = "MissingRefreshToken")
            => result[c].url = get_authorization_url

\* The process dies on this step, some caller being inside _save_tokens.
CrashStep ==
    /\ \E c \in Callers : pc[c] = "writing"
    /\ \A c \in Callers : pc'[c] = "idle"

\* C11: when the process crashes during _save_tokens, the token file
\* afterwards holds either the complete record it held before or the complete
\* new record (never an empty or truncated one), and the manager constructed
\* after the crash loads one of those two records.
C11_Step ==
    CrashStep =>
        \E c \in Callers :
            /\ pc[c] = "writing"
            /\ file' \in {file, FileOf(loc[c].cand)}
            /\ file.state = "ok" => token_data' \in {file.data, loc[c].cand}

C11_CrashSafeStore == [][C11_Step]_vars

\* A call of c, having run alone, ends on this step with its file write
\* failing.
SaveFails(c) ==
    /\ pc[c] = "writing" /\ pc'[c] = "done"
    /\ loc'[c].wrote # "ok"
    /\ loc[c].alone

\* What C12 says of the get_valid_access_token call that follows.
C12_Reads(c) ==
    /\ pc'[c] = "done"
    /\ result'[c].status = "ok"
    /\ result'[c].value = token_data.access_token
    /\ ~loc'[c].refresh
    /\ token_data' = token_data

\* C12 as claimed: after a refresh or an exchange whose file write failed, the
\* next get_valid_access_token call, no time having passed, returns the new
\* access_token without refreshing.
C12_StepAlways ==
    \A c \in Callers :
        (GVBegins(c) /\ last = "save_failed" /\ Has(token_data, "access_token"))
            => C12_Reads(c)

C12_NewTokenServedAlways == [][C12_StepAlways]_vars

\* C12 as amended: when the file write of a refresh or a code exchange fails,
\* the call raises the persistence error and self.token_data is the record
\* just obtained (the response's access_token, expires_at from the clock);
\* the next get_valid_access_token call, no time having passed and no other
\* call in progress, returns that access_token without refreshing when
\* ALWAYS_REFRESH is off and the record's expires_in (3600 when absent)
\* exceeds the buffer.
C12_Step ==
    \A c \in Callers :
        /\ (SaveFails(c) /\ ~RunsGV(op[c]))
              => result'[c] = Raise("SaveFailed", NoUrl)
        /\ SaveFails(c)
              => /\ token_data' = loc[c].cand
                 /\ token_data'.access_token = loc[c].resp.access_token
                 /\ token_data'.expires_at
                      = now + Get(loc[c].resp, "expires_in", DEFAULT_EXPIRES_IN)
        /\ (/\ GVBegins(c) /\ last = "save_failed"
            /\ Has(token_data, "access_token")
            /\ ~ALWAYS_REFRESH
            /\ Get(token_data, "expires_in", DEFAULT_EXPIRES_IN) > 300)
              => C12_Reads(c)

C12_NewTokenServed == [][C12_Step]_vars

\* A get_valid_access_token call that began right after a call whose file
\* write failed has returned the token held in memory, which the file does
\* not hold.
C12_Witness ==
    \E c \in Callers :
        /\ GVEnded(c) /\ last = "save_failed"
        /\ result[c].status = "ok" /\ ~loc[c].refresh
        /\ result[c].value = token_data.access_token
        /\ _load_tokens(file) # token_data

IAU == "is_authenticated"

\* The manager was constructed over a file that is not JSON and has stored
\* nothing since (a record stored by a grant is never the empty dict: it has
\* expires_at).
CorruptLoaded == file.state = "corrupt" /\ token_data = None

\* A manager is constructed on this step (or nothing happens).
ConstructStep ==
    /\ \A c \in Callers : pc[c] = "idle" /\ pc'[c] = "idle"
    /\ now' = now

\* The spec's Valid: an access token whose expires_at is more than the buffer
\* ahead of t.
Valid(d, t) ==
    /\ Has(d, "access_token")
    /\ Get(d, "expires_at", DEFAULT_EXPIRES_AT) > t + TOKEN_REFRESH_BUFFER_SECONDS

\* Caller c is delivered the success response of its code exchange on this
\* step, the manager being as constructed over a corrupt file.
ExchangeOverCorrupt(c) ==
    /\ CorruptLoaded
    /\ op[c] = XCH /\ pc[c] = "posting" /\ pc'[c] = "writing"
    /\ Has(loc'[c].resp, "access_token")

\* What C13 says of the construction and of the calls made before any grant.
C13_Unbootstrapped ==
    /\ (ConstructStep /\ file.state = "corrupt") => token_data' = None
    /\ \A c \in Callers :
        (CorruptLoaded /\ pc[c] = "idle" /\ pc'[c] # "idle" /\ op'[c] \in {IAU, GVA})
            => /\ pc'[c] = "done"
               /\ ~loc'[c].refresh
               /\ result'[c] = IF op'[c] = IAU THEN Value("False")
                                ELSE NoAccessTokenError
               /\ token_data' = None /\ file' = file

\* C13 as claimed: a manager constructed over a corrupt token file holds no
\* record, answers is_authenticated() with false, makes no request in
\* get_valid_access_token, and is brought to Valid by a successful code
\* exchange.
C13_StepAlways ==
    /\ C13_Unbootstrapped
    /\ \A c \in Callers : ExchangeOverCorrupt(c) => Valid(token_data', now)

C13_CorruptStoreAlways == [][C13_StepAlways]_vars

\* C13 as amended: a manager constructed over a corrupt token file holds no
\* record, answers is_authenticated() with false, raises in
\* get_valid_access_token without making a request, and after a successful
\* code exchange holds the response's record with expires_at = now +
\* expires_in, which is Valid exactly when expires_in (3600 when absent)
\* exceeds the buffer.
C13_Step ==
    /\ C13_Unbootstrapped
    /\ \A c \in Callers :
        ExchangeOverCorrupt(c)
            => /\ token_data' = WithExpiry(loc'[c].resp, now)
               /\ Valid(token_data', now)
                    <=> Get(loc'[c].resp, "expires_in", DEFAULT_EXPIRES_IN) > 300

C13_CorruptStore == [][C13_Step]_vars

\* is_authenticated() has answered false on a manager constructed over a
\* corrupt file, without a request.
C13_Witness ==
    \E c \in Callers :
        /\ pc[c] = "done" /\ op[c] = IAU
        /\ CorruptLoaded
        /\ result[c] = Value("False")
        /\ ~loc[c].refresh

\* C14 as claimed (its last clause): a get_valid_access_token call made right
\* after is_authenticated() returned true succeeds.
C14_TrueMeansNextCallSucceeds ==
    \A c \in Callers :
        (GVEnded(c) /\ loc[c].afterAuth) => result[c].status = "ok"

\* The get_valid_access_token call that an ended call of c made returned a
\* token: no refresh it attempted failed and line 188 (or 181) found an
\* access_token to return.
InnerCallReturned(c) == ~loc[c].failed /\ Has(token_data, "access_token")

\* C14 as amended: is_authenticated() never raises; it returns true exactly
\* when the get_valid_access_token call it makes returns a token, false for
\* every failure of that call; and a get_valid_access_token call made right
\* after it returned true (no time passed, no other call in progress) returns
\* the held token at once when ALWAYS_REFRESH is off and the held record is
\* more than the buffer from its expiry.
C14_Step ==
    \A c \in Callers :
        /\ (pc[c] = "done" /\ op[c] = IAU)
              => /\ result[c] \in {Value("True"), Value("False")}
                 /\ result[c] = Value("True") <=> InnerCallReturned(c)
        /\ (/\ GVBegins(c) /\ last = "auth_true"
            /\ ~ALWAYS_REFRESH /\ Valid(token_data, now))
              => /\ pc'[c] = "done"
                 /\ result'[c].status = "ok"
                 /\ result'[c].value = token_data.access_token

C14_IsAuthenticatedAgrees == [][C14_Step]_vars

\* A get_valid_access_token call made right after is_authenticated() returned
\* true has returned the token without refreshing.
C14_Witness ==
    \E c \in Callers :
        /\ GVEnded(c) /\ loc[c].afterAuth
        /\ result[c].status = "ok"
        /\ ~loc[c].refresh
        /\ ~ALWAYS_REFRESH

\* C15: at most one refresh (its POST and its _save_tokens write) is in
\* progress in a process at a time, and at most one caller is between the
\* assignment of self.token_data (line 74) and the end of its file write, so
\* that two writes are never in progress together.
C15_RefreshAndWriteExcluded ==
    /\ Cardinality({c \in Callers :
                       loc[c].refresh /\ pc[c] \in {"posting", "writing"}}) <= 1
    /\ Cardinality({c \in Callers : pc[c] = "writing"}) <= 1

\* C16: the record a successful exchange or refresh stores has expires_at =
\* the clock at that operation + the response's expires_in (3600 when the
\* response has none), whatever expires_at was held before and whatever
\* expires_at the response carries; it is later than the time of the
\* operation; a write that succeeds puts that record in the file.  (The
\* clock does not advance between line 149 and the end of the write.)
C16_ExpiryRecomputed ==
    \A c \in Callers :
        /\ pc[c] = "writing" \/ (pc[c] = "done" /\ loc[c].wrote # "")
              => /\ loc[c].cand.expires_at
                      = now + Get(loc[c].resp, "expires_in", DEFAULT_EXPIRES_IN)
                 /\ loc[c].cand.expires_at > now
                 /\ loc[c].alone => token_data = loc[c].cand
        /\ (pc[c] = "done" /\ loc[c].wrote = "ok")
              => file = FileOf(loc[c].cand)

\* A refresh made after the clock advanced, answered with an expires_at of
\* the server's own and no expires_in, has stored now + 3600.
C16_Witness ==
    \E c \in Callers :
        /\ pc[c] = "done" /\ loc[c].refresh /\ loc[c].wrote = "ok"
        /\ Has(loc[c].resp, "expires_at") /\ ~Has(loc[c].resp, "expires_in")
        /\ now > 0
        /\ token_data.expires_at = now + DEFAULT_EXPIRES_IN
        /\ file = FileOf(token_data)

GCC == "get_connection_config"

\* C17: whenever the refresh made for get_connection_config fails (no
\* refresh token, non-success status, network failure, failed file write),
\* the adapter returns a config without the Authorization header and no
\* exception leaves it.
C17_AdapterDegrades ==
    \A c \in Callers :
        (pc[c] = "done" /\ op[c] = GCC /\ loc[c].failed)
            => result[c] = Value(NoHeaders)

\* The refresh that caller c made fails on this step before _save_tokens is
\* reached: no refresh_token to send, or the POST failed.
RefreshFailsBeforeSave(c) ==
    /\ pc[c] # "done" /\ pc'[c] = "done"
    /\ loc'[c].refresh /\ loc'[c].failed
    /\ loc'[c].wrote = ""

\* C18: a refresh that fails before saving (no refresh_token, non-success
\* status, network failure) leaves self.token_data and the token file exactly
\* as they were, so the refresh_token held for the next attempt is the same.
C18_Step ==
    \A c \in Callers :
        RefreshFailsBeforeSave(c) => (token_data' = token_data /\ file' = file)

C18_FailedRefreshChangesNothing == [][C18_Step]_vars

\* A refresh was rejected by the server; the record loaded at construction
\* is still held and still in the file.
C18_Witness ==
    \E c \in Callers :
        /\ pc[c] = "done" /\ loc[c].refresh /\ loc[c].failed /\ loc[c].wrote = ""
        /\ result[c] = Raise("HTTPStatusError", NoUrl)
        /\ token_data = StoredEarlier
        /\ file = FileOf(StoredEarlier)

\* C19: the record that a success response to an exchange or a refresh puts
\* in memory (line 74) and in the token file has an access_token, whatever
\* the body of the response.
C19_StoredRecordHasAccessToken ==
    \A c \in Callers :
        /\ pc[c] = "writing"
              => Has(loc[c].cand, "access_token")
        /\ (pc[c] = "done" /\ loc[c].wrote = "ok")
              => Has(file.data, "access_token")

\* C20: whenever no operation is in progress and every file write since the
\* manager was constructed has succeeded, the token file holds the record
\* held in memory: a second manager constructed then loads the same record.
C20_MemoryMatchesFile ==
    ((\A c \in Callers : pc[c] = "idle") /\ ~saveFailed)
        => _load_tokens(file) = token_data

====
